---- MODULE Spec2Model ----
(***************************************************************************)
(* State-machine model of the StarField scene engine                       *)
(* (src/src/components/starfield/StarField.tsx and the functions it calls  *)
(* in drawFunctions.ts, generators and performanceUtils.ts).               *)
(*                                                                         *)
(* StarField.tsx holds two revisions of the component: lines 1-152 cruise  *)
(* at a constant driftAmount of 1, lines 154-358 add the idle detector     *)
(* that fades the drift in and out.  Both are modelled; `variant` says     *)
(* which one a behaviour runs.                                             *)
(*                                                                         *)
(* Units.  Timestamps and the engine clock `time` are integer              *)
(* milliseconds (the code keeps `time` in seconds: 5 s is 5000 here).      *)
(* `quality` is an IEEE-754 double, modelled exactly (see "Doubles").      *)
(* A shooting star's life is in units of 1/LifeScale.  driftProgress is    *)
(* in units of 1/Den and driftAmount in units of 1/Den3; both are exact    *)
(* because every frame delta of the model is a multiple of 8 ms.           *)
(***************************************************************************)
EXTENDS Integers, Sequences, FiniteSets, TLC

VARIABLES
    variant,              \* "cruise" (lines 1-152) or "idle" (lines 154-358)
    maxShootingStars,     \* performanceConfig.maxShootingStars
    canvas,               \* <<canvas.width, canvas.height>>
    stars,                \* generated collections: which resize made them,
    galaxies,             \*   and for which canvas size
    nebulas,
    shootingStars,        \* sequence of [life, decay, steps]
    time,                 \* engine clock, ms
    lastTimestamp,        \* ms, 0 = no frame yet
    nextShootingStarTime, \* ms
    frameCount,
    lastFpsCheck,         \* ms
    quality,              \* double, <<k, r>>
    targetMouseX,         \* pointer target, units of 1/MouseScale
    targetMouseY,
    mouseX,               \* smoothed pointer
    mouseY,
    lastMouseMoveTime,    \* ms (idle variant)
    driftAmount,          \* units of 1/Den3
    driftProgress,        \* units of 1/Den
    driftOffset,          \* <<whole, frac>>, see AddDrift
    isDrifting,
    animationFrameId,     \* id of the pending frame request (ids count up)
    pending,              \* ids of the frame requests the browser holds
    listening,            \* the resize and mousemove listeners are installed
    lastSpawnTime,        \* history: engine time (ms) of the latest spawn, -1 = none
    starColor,            \* what the latest getRandomStarColor() call drew and returned
    generated,            \* what the latest generator call returned: its length and two entries
    detected,             \* the inputs and the result of the latest detectPerformanceTier() call
    faded,                \* the depthPhase and the depthAlpha of the latest entity a draw function faded
    flight,               \* a shooting star followed in double precision
    drawn                 \* what the last frame drew

vars == <<variant, maxShootingStars, canvas, stars, galaxies, nebulas,
          shootingStars, time, lastTimestamp, nextShootingStarTime,
          frameCount, lastFpsCheck, quality,
          targetMouseX, targetMouseY, mouseX, mouseY,
          lastMouseMoveTime, driftAmount, driftProgress, driftOffset,
          isDrifting, animationFrameId, pending, listening, lastSpawnTime,
          starColor, generated, detected, faded,
          flight, drawn>>

(***************************************************************************)
(* Bounds of the model.                                                    *)
(***************************************************************************)
\* last timestamp (ms) at which a frame is still delivered
MaxTimestamp == 17008
\* resizes after the one the constructor runs
MaxResizes == 1
\* last timestamp (ms) of the behaviours that exercise the quality controller
MaxQualityTimestamp == 10272
\* frames, and last timestamp (ms), of the behaviours that follow shooting
\* stars to their end
MaxLifeFrames == 44
MaxLifeTimestamp == 16800
\* frames, and last timestamp (ms), of the behaviours that cruise until the
\* drift accumulator wraps
MaxLongFrames == 11
MaxLongTimestamp == 2003000
\* frames, and last timestamp (ms), of the behaviours that exercise the idle
\* detector
MaxDriftFrames == 13
MaxDriftTimestamp == 6008
\* last timestamp (ms) of the behaviours that end with the cleanup
MaxStopTimestamp == 11008
\* frames, and last timestamp (ms), of the behaviours in which the page is
\* suspended between two frames
MaxSuspendFrames == 6
MaxSuspendTimestamp == 5200000
\* engine time (ms) up to which the pointer still moves, and last timestamp
\* (ms), of the behaviours in which the scene is left idle
MaxMoveTime == 2500
MaxCruiseTimestamp == 8000
\* number of equal steps the depthPhase range [0, 1) is cut into
PhaseSteps == 2000
\* number of equal cells the range [0, 1) of Math.random() is cut into; the
\* model draws the midpoint of a cell
RandomSteps == 1000

(***************************************************************************)
(* Doubles.  `quality` starts at 1.0 and only ever has the doubles 0.1 and *)
(* 0.05 subtracted from / added to it, so every value it takes is a        *)
(* multiple of 2^-57 close to a multiple of 0.05.  A double is written     *)
(* <<k, r>> and stands for (k * U + r) * 2^-57, where                      *)
(* U = 7205759403792794 is the double 0.05 in units of 2^-57 and r is a    *)
(* small offset.  In this form                                             *)
(*    0.05 = <<1,0>>   0.1 = <<2,0>>   0.2 = <<4,0>>   0.5 = <<10,-4>>     *)
(*    0.6 = <<12,-8>>  0.8 = <<16,0>>  1.0 = <<20,-8>>                     *)
(* (the nearest doubles to those decimals; 2^57 = 20 U - 8).  U mod 64 is  *)
(* 26, which is all that rounding to the nearest even needs.               *)
(***************************************************************************)
UMod64 == 26

Q005 == <<1, 0>>
Q01 == <<2, 0>>
Q02 == <<4, 0>>
Q05 == <<10, -4>>
Q06 == <<12, -8>>
Q08 == <<16, 0>>
Q10 == <<20, -8>>

FLt(a, b) == a[1] < b[1] \/ (a[1] = b[1] /\ a[2] < b[2])

FGt(a, b) == FLt(b, a)

\* unit in the last place (in 2^-57) of the binade the exact value s lies in
Ulp(s) ==
    IF ~FLt(s, <<20, -8>>) THEN 32
    ELSE IF ~FLt(s, <<10, -4>>) THEN 16
    ELSE IF ~FLt(s, <<5, -2>>) THEN 8
    ELSE IF ~FLt(<<2 * s[1], 2 * s[2]>>, <<5, -2>>) THEN 4
    ELSE 2

\* round the exact value s to the nearest double, ties to even
RoundToDouble(s) ==
    LET u == Ulp(s)
        low == (UMod64 * s[1] + s[2]) % (2 * u)
        rem == low % u
        down == <<s[1], s[2] - rem>>
        up == <<s[1], s[2] - rem + u>>
    IN  IF rem = 0 THEN s
        ELSE IF 2 * rem < u THEN down
        ELSE IF 2 * rem > u THEN up
        ELSE IF low = rem THEN down
        ELSE up

FAdd(a, b) == RoundToDouble(<<a[1] + b[1], a[2] + b[2]>>)

FSub(a, b) == RoundToDouble(<<a[1] - b[1], a[2] - b[2]>>)

(***************************************************************************)
(* Program constants.                                                      *)
(***************************************************************************)
\* the fps window, ms (timestamp - lastFpsCheck >= 1000)
FpsWindow == 1000
LowFps == 30
HighFps == 55
\* IDLE_THRESHOLD = 2 s
IDLE_THRESHOLD == 2000
\* DRIFT_FADE_IN_DURATION = 3.0 s, DRIFT_FADE_OUT_DURATION = 0.4 s
DRIFT_FADE_IN_DURATION == 3000
DRIFT_FADE_OUT_DURATION == 400
\* driftProgress is counted in 1/Den: 8 ms of fade-in add 2/750, 8 ms of
\* fade-out take 15/750
Den == 750
Den2 == Den * Den
Den3 == Den * Den * Den
\* driftOffset > 100 in units of DRIFT_SPEED * 1 ms = 0.00005
DriftWrap == 2000000
\* a new shooting star has life: 1
LifeScale == 1000
\* the pointer is kept in units of 1/MouseScale
MouseScale == 1000000
\* getPerformanceConfig: maxShootingStars of the low, medium and high tier
TierMaxShootingStars == {2, 3, 8}

(***************************************************************************)
(* Inputs.                                                                 *)
(***************************************************************************)
\* window.innerWidth x innerHeight, and devicePixelRatio capped at 2
WindowSizes == {<<800, 600>>}
DevicePixelRatios == {1, 3}
\* pointer positions as handleMouseMove normalises them,
\* (clientX / innerWidth - 0.5) * 2: the pointer moves over the centre
PointerTargets == {<<0, 0>>}
\* 5 + Math.random() * 10 seconds
DelayChoices == {5000, 10000}
\* decay = 0.002 + random * 0.015 + (speed / 30) * 0.01 with speed in [3, 30)
DecayChoices == {26, 9}
\* timestamp of the first frame, and the gaps between later frames
FirstTimestamps == {8, 1200}
FrameDeltas == {2000, 5000}
\* 16 ms frames with 1008 ms stalls among them: a window that closes after k
\* smooth frames has fps k + 1, for every k up to 62
QualityDeltas == {16, 1008}
\* smooth 32 ms frames (32 frames a window) and 5 s stalls
LifeDeltas == {32, 5024}
\* 200 ms frames, one-second stalls and a tab left in the background
LongDeltas == {200, 1000, 1000000}
\* 80 ms frames (a fifth of the fade-out) and one-second stalls
DriftDeltas == {80, 1000}
\* 400 ms frames and one-second stalls
CruiseDeltas == {400, 1000}
\* a second, and suspensions of 1000 s and of 2100 s
SuspendDeltas == {1000, 1000000, 2100000}

(***************************************************************************)
(* Generators and draw functions.                                          *)
(***************************************************************************)
\* initStars / initGalaxies / initNebulas(canvas.width, canvas.height, cfg):
\* a freshly generated collection, identified by the resize that made it
InitCollection(gen, size) == [gen |-> gen, w |-> size[1], h |-> size[2]]

\* const dpr = Math.min(window.devicePixelRatio || 1, 2);
\* canvas.width = innerWidth * dpr, canvas.height = innerHeight * dpr
CanvasSize(win, ratio) ==
    LET dpr == IF ratio < 2 THEN ratio ELSE 2
    IN  <<win[1] * dpr, win[2] * dpr>>

\* createShootingStar: life 1, a decay drawn at creation, not yet advanced
CreateShootingStar(decay) == [life |-> LifeScale, decay |-> decay, steps |-> 0]

\* shootingStars.filter(star => star.life > 0)
FilterAlive(ss) == SelectSeq(ss, LAMBDA s : s.life > 0)

\* the loop body of drawShootingStars: advance, then life -= decay
AdvanceStar(s) == [s EXCEPT !.steps = @ + 1, !.life = @ - s.decay]

\* drawShootingStars: filter first, then update and draw every survivor;
\* returns the survivors as updated
DrawShootingStars(ss) ==
    LET activeStars == FilterAlive(ss)
    IN  [i \in 1..Len(activeStars) |-> AdvanceStar(activeStars[i])]

(***************************************************************************)
(* Adaptive quality (animate, "FPS Calculation and Adaptive Quality").     *)
(***************************************************************************)
\* does the frame at `timestamp` close the measurement window
ClosesWindow(timestamp) == timestamp - lastFpsCheck >= FpsWindow

\* the adjustment without the floor on the decrease
AdjustQualityNoFloor(q, fps) ==
    IF fps < LowFps THEN FSub(q, Q01)
    ELSE IF fps > HighFps /\ FLt(q, Q10) THEN FAdd(q, Q005)
    ELSE q

\* the adjustment with the increase granted from 30 fps on
AdjustQualityEagerIncrease(q, fps) ==
    IF fps < LowFps /\ FGt(q, Q02) THEN FSub(q, Q01)
    ELSE IF fps > LowFps /\ FLt(q, Q10) THEN FAdd(q, Q005)
    ELSE q

\* "Adjust quality based on FPS"
AdjustQuality(q, fps) ==
    IF fps < LowFps /\ FGt(q, Q02) THEN FSub(q, Q01)
    ELSE IF fps > HighFps /\ FLt(q, Q10) THEN FAdd(q, Q005)
    ELSE q

\* an empty array, or a draw call that was not made
Nothing == [gen |-> 0, w |-> 0, h |-> 0]

\* const activeNebulas = quality < 0.5 ? [] : nebulas
ActiveNebulas(q) == IF FLt(q, Q05) THEN Nothing ELSE nebulas

\* const activeGalaxies = quality < 0.8 ? [] : galaxies
ActiveGalaxies(q) == IF FLt(q, Q08) THEN Nothing ELSE galaxies

\* if (quality > 0.5) drawNebulas(ctx, activeNebulas, ...)
DrawnNebulas(q) == IF FGt(q, Q05) THEN ActiveNebulas(q) ELSE Nothing

\* if (quality > 0.8) drawGalaxies(ctx, activeGalaxies, ...)
DrawnGalaxies(q) == IF FGt(q, Q08) THEN ActiveGalaxies(q) ELSE Nothing

(***************************************************************************)
(* Drift (idle variant: "Update drift state based on idle time").          *)
(***************************************************************************)
\* the curve that ends at a half
EaseInQuadHalved(p) == (p * p * Den) \div 2

\* easeInQuad(t) = t * t, t in 1/Den, result in 1/Den3
EaseInQuad(p) == p * p * Den

\* easeOutCubic(t) = 1 - (1 - t)^3
EaseOutCubic(p) == Den3 - (Den - p) * (Den - p) * (Den - p)

Min(a, b) == IF a < b THEN a ELSE b

Max(a, b) == IF a > b THEN a ELSE b

\* the update without the ceiling on driftProgress
UpdateDriftNoCeiling(deltaMs, idleTime) ==
    IF variant = "cruise" THEN <<driftProgress, driftAmount, isDrifting>>
    ELSE IF idleTime > IDLE_THRESHOLD THEN
        LET p == driftProgress + (deltaMs * Den) \div DRIFT_FADE_IN_DURATION
        IN  <<p, EaseInQuad(p), TRUE>>
    ELSE IF isDrifting \/ driftProgress > 0 THEN
        LET p == Max(0, driftProgress - (deltaMs * Den) \div DRIFT_FADE_OUT_DURATION)
        IN  <<p, EaseOutCubic(p), IF p <= 0 THEN FALSE ELSE isDrifting>>
    ELSE <<driftProgress, driftAmount, isDrifting>>

\* the new <<driftProgress, driftAmount, isDrifting>> after deltaMs
UpdateDrift(deltaMs, idleTime) ==
    IF variant = "cruise" THEN <<driftProgress, driftAmount, isDrifting>>
    ELSE IF idleTime > IDLE_THRESHOLD THEN
        LET p == Min(Den, driftProgress + (deltaMs * Den) \div DRIFT_FADE_IN_DURATION)
        IN  <<p, EaseInQuad(p), TRUE>>
    ELSE IF isDrifting \/ driftProgress > 0 THEN
        LET p == Max(0, driftProgress - (deltaMs * Den) \div DRIFT_FADE_OUT_DURATION)
        IN  <<p, EaseOutCubic(p), IF p <= 0 THEN FALSE ELSE isDrifting>>
    ELSE <<driftProgress, driftAmount, isDrifting>>

\* the accumulator advanced by a fixed amount a frame, whatever the deltaTime
AddDriftPerFrame(off, deltaMs, amount) == <<off[1] + 16, off[2]>>

\* driftOffset += DRIFT_SPEED * deltaTime * driftAmount, exactly.
\* driftOffset is <<whole, frac>> = (whole + frac / Den3) * 0.00005, and
\* deltaMs * amount / Den3 is computed digit by digit in base Den.
AddDrift(off, deltaMs, amount) ==
    LET a0 == amount % Den
        a1 == (amount \div Den) % Den
        a2 == amount \div Den2
        t0 == deltaMs * a0
        t1 == deltaMs * a1 + (t0 \div Den)
        t2 == deltaMs * (a2 % Den) + (t1 \div Den)
        w == deltaMs * (a2 \div Den) + (t2 \div Den)
        f == (t2 % Den) * Den2 + (t1 % Den) * Den + (t0 % Den)
        fsum == off[2] + f
    IN  IF fsum >= Den3 THEN <<off[1] + w + 1, fsum - Den3>>
        ELSE <<off[1] + w, fsum>>

\* the wrap that takes off 97.5 instead of 100
WrapDriftShort(off) ==
    IF off[1] > DriftWrap \/ (off[1] = DriftWrap /\ off[2] > 0)
    THEN <<off[1] - (DriftWrap - 50000), off[2]>>
    ELSE off

\* if (driftOffset > 100) driftOffset -= 100
WrapDrift(off) ==
    IF off[1] > DriftWrap \/ (off[1] = DriftWrap /\ off[2] > 0)
    THEN <<off[1] - DriftWrap, off[2]>>
    ELSE off

\* mouseX += (targetMouseX - mouseX) * lerpFactor, lerpFactor = 0.05
Lerp(m, target) == m + ((target - m) \div 20)

(***************************************************************************)
(* The motion model of drawStars, drawGalaxies, drawNebulas and            *)
(* drawStarClusters.  Every entity travels outward from the canvas centre: *)
(*    depthPhase = (initialPhase + driftOffset * speed) % 1                *)
(*    travelDist = maxDist * depthPhase                                    *)
(*    draw = centre + (cos(angle), sin(angle)) * travelDist                *)
(* A phase is kept in the units of driftOffset, as the drift that makes    *)
(* it: depthPhase 1 is one PhasePeriod = 1 / speed.  A position is kept in *)
(* polar form around the centre, [phase, angle]: the distance from the     *)
(* centre as a fraction of maxDist (a phase) and the direction in 10^-7    *)
(* turns.  Two points other than the centre are equal iff their polar      *)
(* forms are.                                                              *)
(***************************************************************************)
\* a < b for drift offsets <<whole, frac>>
OffsetLt(a, b) == a[1] < b[1] \/ (a[1] = b[1] /\ a[2] < b[2])

OffsetAdd(a, b) ==
    IF a[2] + b[2] >= Den3 THEN <<a[1] + b[1] + 1, a[2] + b[2] - Den3>>
    ELSE <<a[1] + b[1], a[2] + b[2]>>

OffsetSub(a, b) ==
    IF a[2] < b[2] THEN <<a[1] - b[1] - 1, a[2] + Den3 - b[2]>>
    ELSE <<a[1] - b[1], a[2] - b[2]>>

\* a % p for non-negative a
RECURSIVE OffsetMod(_, _)
OffsetMod(a, p) == IF OffsetLt(a, p) THEN a ELSE OffsetMod(OffsetSub(a, p), p)

Kinds == {"star", "galaxy", "nebula", "cluster"}

\* 1 / speed in units of driftOffset: speed is 0.2 for stars, 0.1 for
\* galaxies, 0.05 for nebulas and 0.15 for clusters
PhasePeriod(kind) ==
    CASE kind = "star" -> <<100000, 0>>
      [] kind = "galaxy" -> <<200000, 0>>
      [] kind = "nebula" -> <<400000, 0>>
      [] kind = "cluster" -> <<133333, Den3 \div 3>>

\* Math.sqrt, for the perfect squares the sampled geometry gives it
\* (Newton's iteration on the integers, from above)
RECURSIVE SqrtFrom(_, _)
SqrtFrom(n, x) ==
    LET y == (x + n \div x) \div 2
    IN  IF y >= x THEN x ELSE SqrtFrom(n, y)

Sqrt(n) == IF n = 0 THEN 0 ELSE SqrtFrom(n, 2048)

\* const maxDist = Math.sqrt(centerX * centerX + centerY * centerY)
MaxDist(size) ==
    LET centerX == size[1] \div 2
        centerY == size[2] \div 2
    IN  Sqrt(centerX * centerX + centerY * centerY)

\* Math.atan2(dy, dx) in 10^-7 turns, for the directions along the axes
Atan2(dy, dx) ==
    IF dy = 0 /\ dx >= 0 THEN 0
    ELSE IF dx = 0 /\ dy > 0 THEN 2500000
    ELSE IF dy = 0 THEN 5000000
    ELSE 7500000

\* the distance dist from the centre as a phase of period p: dist / maxDist
\* (dist divides maxDist in the sampled geometry)
PhaseOfRadius(dist, maxDist, p) ==
    IF dist = 0 THEN <<0, 0>>
    ELSE LET n == maxDist \div dist
         IN  <<p[1] \div n, (p[1] % n) * (Den3 \div n) + (p[2] \div n)>>

\* the generated entities the model follows: x = Math.random() * width,
\* y = Math.random() * height, and one more Math.random() for
\* twinkleOffset / rotation, in quarters.  The points are a fifth of
\* maxDist right of and above the centre.
SamplePoints(size) ==
    LET centerX == size[1] \div 2
        centerY == size[2] \div 2
        fifth == MaxDist(size) \div 5
    IN  {<<centerX + fifth, centerY>>, <<centerX, centerY - fifth>>}

SampleTurns == {1, 3}

\* the extreme positions: Math.random() = 0 twice puts an entity on the
\* corner (0, 0), and an entity can lie on the centre of the canvas
EdgePoints(size) == {<<0, 0>>, <<size[1] \div 2, size[2] \div 2>>}

\* the extreme values of twinkleOffset and rotation, in quarters of a turn
EdgeTurns == {0, 3}

EdgeEntities(kind, size) ==
    {[kind |-> kind, x |-> p[1], y |-> p[2], turn |-> u] :
        p \in EdgePoints(size), u \in EdgeTurns}

Entities(kind, coll) ==
    {[kind |-> kind, x |-> p[1], y |-> p[2], turn |-> u] :
        p \in SamplePoints(<<coll.w, coll.h>>), u \in SampleTurns}

\* the initial phase taken one cycle back
InitialPhaseCycleBack(e, size) ==
    LET p == PhasePeriod(e.kind)
        dx == e.x - size[1] \div 2
        dy == e.y - size[2] \div 2
    IN  IF e.kind \in {"star", "galaxy"}
        THEN OffsetSub(<<(p[1] * e.turn) \div 4, 0>>, p)
        ELSE OffsetSub(PhaseOfRadius(Sqrt(dx * dx + dy * dy), MaxDist(size), p), p)

\* initialPhase: stars (twinkleOffset / 2 pi) % 1, galaxies
\* (rotation / 2 pi) % 1, nebulas and clusters dist / maxDist (which is 1
\* for an entity at a corner of the canvas)
InitialPhase(e, size) ==
    LET p == PhasePeriod(e.kind)
        dx == e.x - size[1] \div 2
        dy == e.y - size[2] \div 2
    IN  IF e.kind \in {"star", "galaxy"} THEN <<(p[1] * e.turn) \div 4, 0>>
        ELSE PhaseOfRadius(Sqrt(dx * dx + dy * dy), MaxDist(size), p)

\* the phase that ignores the whole periods travelled
DepthPhaseNoWrap(e, size, off) == OffsetAdd(InitialPhase(e, size), off)

\* depthPhase = (initialPhase + driftOffset * speed) % 1
DepthPhase(e, size, off) ==
    OffsetMod(OffsetAdd(InitialPhase(e, size), off), PhasePeriod(e.kind))

\* the direction of travel: stars and galaxies
\*   seed = (x * 12.9898 + y * 78.233) % 1000, angle = seed / 1000 * 2 pi
\* nebulas and clusters  angle = Math.atan2(y - centerY, x - centerX)
Angle(e, size) ==
    IF e.kind \in {"star", "galaxy"} THEN (e.x * 129898 + e.y * 782330) % 10000000
    ELSE Atan2(e.y - size[2] \div 2, e.x - size[1] \div 2)

\* (drawX, drawY), in polar form around the centre
DrawPosition(e, size, off) ==
    [phase |-> DepthPhase(e, size, off), angle |-> Angle(e, size)]

\* the generated (x, y) of the entity, in the same polar form
StaticPosition(e, size) ==
    LET dx == e.x - size[1] \div 2
        dy == e.y - size[2] \div 2
    IN  [phase |-> PhaseOfRadius(Sqrt(dx * dx + dy * dy), MaxDist(size),
                                 PhasePeriod(e.kind)),
         angle |-> Atan2(dy, dx)]

\* the positions computed by the draw calls d of a frame: each draw function
\* is given a collection, canvas.width and canvas.height, and driftOffset
PositionsDrawn(d) ==
    LET drawnEntities ==
            (IF d.stars.count > 0 THEN Entities("star", d.stars.coll) ELSE {})
              \cup (IF d.galaxies # Nothing THEN Entities("galaxy", d.galaxies) ELSE {})
              \cup (IF d.nebulas # Nothing THEN Entities("nebula", d.nebulas) ELSE {})
    IN  [e \in drawnEntities |-> DrawPosition(e, d.canvas, d.driftOffset)]

\* no draw call was made yet
NothingDrawn ==
    [nebulas |-> Nothing, galaxies |-> Nothing, shooting |-> <<>>,
     stars |-> [coll |-> Nothing, count |-> 0],
     canvas |-> <<0, 0>>, driftOffset |-> <<0, 0>>]

\* initStars: numStars = Math.floor((width * height) / STAR_DENSITY_FACTOR)
STAR_DENSITY_FACTOR == 600

StarCount(coll) == (coll.w * coll.h) \div STAR_DENSITY_FACTOR

\* the unit in the last place, in 2^-57, of the doubles just below the
\* integer n >= 1, found from power == 1, ulp == 16
RECURSIVE UlpBelow(_, _, _)
UlpBelow(n, power, ulp) ==
    IF power >= n THEN ulp ELSE UlpBelow(n, 2 * power, 2 * ulp)

\* Math.floor(len * q).  q = <<k, r>> is k / 20 + (2 k + 5 r) / 5 * 2^-57,
\* so len * q is len * k / 20 plus an offset far below 1/20; only when
\* len * k / 20 is an integer n and the offset is negative does the floor
\* depend on the product rounding to the double n.
FloorTimes(len, q) ==
    LET n == (len * q[1]) \div 20
        offset5 == len * (2 * q[1] + 5 * q[2])
    IN  IF (len * q[1]) % 20 # 0 \/ offset5 >= 0 \/ n = 0 THEN n
        ELSE IF 2 * (0 - offset5) <= 5 * UlpBelow(n, 1, 16) THEN n
        ELSE n - 1

\* the slice that is not scaled by quality
ActiveStarsAll(q) == [coll |-> stars, count |-> StarCount(stars)]

\* const activeStars = stars.slice(0, Math.floor(stars.length * quality)):
\* the first `count` elements of the collection
ActiveStars(q) ==
    [coll |-> stars,
     count |-> Min(StarCount(stars), Max(0, FloorTimes(StarCount(stars), q)))]

(***************************************************************************)
(* Shooting stars (animate, "Only show shooting stars ...").               *)
(***************************************************************************)
\* the condition under which the frame updates, draws and spawns:
\*   cruise: quality > 0.6        idle: driftAmount < 0.5 && quality > 0.6
SpawnEligible(q, amount) ==
    /\ FGt(q, Q06)
    /\ variant = "idle" => 2 * amount < Den3

\* the guard without its strict comparison
SpawnDueOffByOne(t, ss) == t >= nextShootingStarTime /\ Len(ss) <= maxShootingStars

\* "Spawn shooting star at intervals (respecting max count)"
SpawnDue(t, ss) == t >= nextShootingStarTime /\ Len(ss) < maxShootingStars

\* the timer re-armed from the old deadline instead of the current time
NextSpawnTimeFromDeadline(now, delay) == nextShootingStarTime + delay

\* nextShootingStarTime = time + getNextShootingStarDelay()
NextSpawnTime(now, delay) == now + delay

(***************************************************************************)
(* Star colours (constants.ts, colorUtils.ts).  Weights are in units of    *)
(* 1/WeightUnit.  Math.random() yields the midpoint of one of RandomSteps  *)
(* cells, (2n + 1) / (2 RandomSteps): such a value is at least 0.0005      *)
(* away from every multiple of 0.001, while the running double sum         *)
(* `cumulative` is within 1e-14 of the exact sum, so comparing with the    *)
(* exact sum decides `random < cumulative` as the doubles do.              *)
(***************************************************************************)
WeightUnit == 1000

STAR_COLORS ==
    << [r |-> 146, g |-> 181, b |-> 255], [r |-> 155, g |-> 176, b |-> 255],
       [r |-> 162, g |-> 185, b |-> 255],
       [r |-> 170, g |-> 191, b |-> 255], [r |-> 175, g |-> 195, b |-> 255],
       [r |-> 186, g |-> 204, b |-> 255],
       [r |-> 202, g |-> 215, b |-> 255], [r |-> 213, g |-> 224, b |-> 255],
       [r |-> 230, g |-> 235, b |-> 255],
       [r |-> 248, g |-> 247, b |-> 255], [r |-> 252, g |-> 248, b |-> 245],
       [r |-> 255, g |-> 249, b |-> 240],
       [r |-> 255, g |-> 244, b |-> 234], [r |-> 255, g |-> 241, b |-> 220],
       [r |-> 255, g |-> 235, b |-> 200],
       [r |-> 255, g |-> 224, b |-> 178], [r |-> 255, g |-> 210, b |-> 161],
       [r |-> 255, g |-> 198, b |-> 144], [r |-> 255, g |-> 185, b |-> 120],
       [r |-> 255, g |-> 170, b |-> 110], [r |-> 255, g |-> 150, b |-> 90],
       [r |-> 255, g |-> 130, b |-> 80], [r |-> 255, g |-> 110, b |-> 70],
       [r |-> 255, g |-> 255, b |-> 255], [r |-> 250, g |-> 250, b |-> 255],
       [r |-> 255, g |-> 252, b |-> 248] >>

STAR_COLOR_WEIGHTS ==
    << 1, 1, 2,
       10, 15, 20,
       30, 30, 30,
       40, 40, 40,
       50, 60, 50,
       60, 70, 70, 60,
       80, 80, 60, 40,
       50, 30, 20 >>

\* the values Math.random() takes, as cell numbers
RandomValues == 0 .. (RandomSteps - 1)

\* random < cumulative, for the midpoint of cell n and a sum of weights
RandomLt(n, cumulative) == (2 * n + 1) * WeightUnit < cumulative * 2 * RandomSteps

\* STAR_COLOR_WEIGHTS[0] + ... + STAR_COLOR_WEIGHTS[i - 1]
RECURSIVE Cumulative(_)
Cumulative(i) == IF i = 0 THEN 0 ELSE Cumulative(i - 1) + STAR_COLOR_WEIGHTS[i]

\* the loop of getRandomStarColor from iteration i on (entries count from 1
\* here, from 0 in the code); falling off the end leaves the last colour
RECURSIVE BaseColorFrom(_, _, _)
BaseColorFrom(i, cumulative, n) ==
    IF i > Len(STAR_COLOR_WEIGHTS) THEN Len(STAR_COLORS)
    ELSE IF RandomLt(n, cumulative + STAR_COLOR_WEIGHTS[i]) THEN i
    ELSE BaseColorFrom(i + 1, cumulative + STAR_COLOR_WEIGHTS[i], n)

\* the entry of STAR_COLORS that becomes baseColor
BaseColor(n) == BaseColorFrom(1, 0, n)

\* Math.floor((Math.random() - 0.5) * 20) is an integer from -10 to 9
Variations == {-10, 0, 9}

Clamp255(c) == IF c < 0 THEN 0 ELSE IF c > 255 THEN 255 ELSE c

NoStarColor == [random |-> -1, base |-> 0, color |-> [r |-> 0, g |-> 0, b |-> 0]]

GetRandomStarColor(n, vr, vg, vb) ==
    LET base == BaseColor(n)
    IN  [random |-> n, base |-> base,
         color |-> [r |-> Clamp255(STAR_COLORS[base].r + vr),
                    g |-> Clamp255(STAR_COLORS[base].g + vg),
                    b |-> Clamp255(STAR_COLORS[base].b + vb)]]

(***************************************************************************)
(* Generators (generators.ts).  A Math.random() value is the midpoint of   *)
(* cell n of RandomValues.  Sizes are in units of 1 / SizeUnit, a star's   *)
(* parallaxFactor in units of 1 / (300 SizeUnit) and a galaxy's in units   *)
(* of 1 / (3000 SizeUnit), which makes the formulas of the code exact.     *)
(* Every operation of those formulas is monotone under rounding, so the    *)
(* doubles are ordered as the exact values are wherever the exact values   *)
(* differ by more than a rounding error.                                   *)
(***************************************************************************)
SizeUnit == 20 * RandomSteps

MIN_GALAXIES == 100
MAX_GALAXIES == 200
MIN_NEBULAS == 6
MAX_NEBULAS == 12

\* one Math.random() value in each size class of the stars and the galaxies
SizeRolls == {(RandomSteps * k) \div 40 : k \in {4, 18, 26, 34, 39}}

\* the least and the greatest Math.random() value
SizeDraws == {0, RandomSteps - 1}

\* every tenth Math.random() value and the greatest one
CountDraws == {n \in RandomValues : n % 10 = 0 \/ n = RandomSteps - 1}

\* base + Math.random() * span, base and span in tenths
SizeOf(base, span, n) == base * 2 * RandomSteps + (2 * n + 1) * span

\* Math.floor(Math.random() * k)
FloorRandomTimes(n, k) == ((2 * n + 1) * k) \div (2 * RandomSteps)

StarSize(sizeRoll, n) ==
    IF RandomLt(sizeRoll, 500) THEN SizeOf(2, 5, n)
    ELSE IF RandomLt(sizeRoll, 800) THEN SizeOf(5, 8, n)
    ELSE IF RandomLt(sizeRoll, 950) THEN SizeOf(10, 10, n)
    ELSE SizeOf(18, 12, n)

\* 0.02 + (size / 3) * 0.08
StarParallaxFactor(size) == 6 * SizeUnit + 8 * size

GalaxySize(distanceFactor, n) ==
    IF RandomLt(distanceFactor, 350) THEN SizeOf(30, 80, n)
    ELSE IF RandomLt(distanceFactor, 550) THEN SizeOf(100, 150, n)
    ELSE IF RandomLt(distanceFactor, 750) THEN SizeOf(250, 300, n)
    ELSE IF RandomLt(distanceFactor, 900) THEN SizeOf(550, 400, n)
    ELSE SizeOf(950, 550, n)

\* 0.005 + (1 - galaxySize / 150) * 0.05
GalaxyParallaxFactor(size) == 165 * SizeUnit - size

\* MIN_GALAXIES + Math.floor(Math.random() * (MAX_GALAXIES - MIN_GALAXIES + 1))
NumGalaxies(n) == MIN_GALAXIES + FloorRandomTimes(n, MAX_GALAXIES - MIN_GALAXIES + 1)

\* MIN_NEBULAS + Math.floor(Math.random() * (MAX_NEBULAS - MIN_NEBULAS + 1))
NumNebulas(n) == MIN_NEBULAS + FloorRandomTimes(n, MAX_NEBULAS - MIN_NEBULAS + 1)

\* 5 + Math.floor(Math.random() * 10)
NumClusters(n) == 5 + FloorRandomTimes(n, 10)

NothingGenerated == [kind |-> "none", count |-> 0, sample |-> <<>>]

\* initStars(width, height): the length of the array and two of its entries
InitStars(coll, rollA, nA, rollB, nB) ==
    [kind |-> "stars", count |-> StarCount(coll),
     sample |-> << [size |-> StarSize(rollA, nA),
                    parallaxFactor |-> StarParallaxFactor(StarSize(rollA, nA))],
                   [size |-> StarSize(rollB, nB),
                    parallaxFactor |-> StarParallaxFactor(StarSize(rollB, nB))] >>]

\* initGalaxies(width, height)
InitGalaxies(n, rollA, nA, rollB, nB) ==
    [kind |-> "galaxies",
     count |-> NumGalaxies(n),
     sample |-> << [size |-> GalaxySize(rollA, nA),
                    parallaxFactor |-> GalaxyParallaxFactor(GalaxySize(rollA, nA))],
                   [size |-> GalaxySize(rollB, nB),
                    parallaxFactor |-> GalaxyParallaxFactor(GalaxySize(rollB, nB))] >>]

\* initNebulas(width, height)
InitNebulas(n) ==
    [kind |-> "nebulas", count |-> NumNebulas(n), sample |-> <<>>]

\* initStarClusters(width, height)
InitStarClusters(n) ==
    [kind |-> "clusters", count |-> NumClusters(n), sample |-> <<>>]

(***************************************************************************)
(* detectPerformanceTier (performanceUtils.ts).  The inputs are what the   *)
(* browser reports: 0 stands for a property that is undefined, the memory  *)
(* hint is in quarters of a GB, and a WebGL probe either throws, yields no *)
(* context, yields no debug extension, or yields a renderer string, given  *)
(* here as the set of the searched-for words it contains.                  *)
(***************************************************************************)
HardwareConcurrencies == {0, 1, 2, 4, 6, 8, 16}

DeviceMemories == {0, 1, 8, 16, 32, 64}

ScreenSizes == {<<1366, 768>>, <<1920, 1080>>, <<2560, 1440>>}

RendererWords == {"nvidia", "rtx", "gtx", "intel"}

Probes ==
    {[outcome |-> o, renderer |-> {}] : o \in {"throws", "no context", "no extension"}}
    \cup {[outcome |-> "renderer", renderer |-> r] : r \in SUBSET RendererWords}

Includes(renderer, words) == renderer \cap words # {}

\* the try block with a catch that gives the lowest tier
GpuTierLowOnFailure(probe) ==
    IF probe.outcome # "renderer" THEN "low"
    ELSE IF Includes(probe.renderer, {"intel", "integrated"}) THEN "low"
    ELSE IF /\ Includes(probe.renderer, {"nvidia", "amd", "radeon"})
            /\ Includes(probe.renderer, {"rtx", "rx 6", "rx 7"}) THEN "high"
    ELSE "medium"

\* gpuTier after the try block
GpuTier(probe) ==
    IF probe.outcome # "renderer" THEN "medium"
    ELSE IF Includes(probe.renderer, {"intel", "integrated"}) THEN "low"
    ELSE IF /\ Includes(probe.renderer, {"nvidia", "amd", "radeon"})
            /\ Includes(probe.renderer, {"rtx", "rx 6", "rx 7"}) THEN "high"
    ELSE "medium"

\* the score of the cores, or of the memory in units of 1 / scale GB
Points(value, scale) ==
    IF value >= 8 * scale THEN 3 ELSE IF value >= 4 * scale THEN 2 ELSE 1

Score(cores, memory, gpuTier, screen) ==
    Points(cores, 1) + Points(memory, 4)
    + (IF gpuTier = "high" THEN 3 ELSE IF gpuTier = "medium" THEN 2 ELSE 1)
    - (IF screen[1] * screen[2] < 1920 * 1080 THEN 1 ELSE 0)

TierOfScore(score) ==
    IF score >= 7 THEN "high" ELSE IF score >= 4 THEN "medium" ELSE "low"

DetectPerformanceTier(isMobile, hardwareConcurrency, deviceMemory, screen, probe) ==
    IF isMobile THEN "low"
    ELSE LET cores == IF hardwareConcurrency = 0 THEN 2 ELSE hardwareConcurrency
             memory == IF deviceMemory = 0 THEN 16 ELSE deviceMemory
         IN  TierOfScore(Score(cores, memory, GpuTier(probe), screen))

NotDetected ==
    [isMobile |-> FALSE, hardwareConcurrency |-> 0, deviceMemory |-> 0,
     screen |-> <<0, 0>>, probe |-> [outcome |-> "none", renderer |-> {}],
     tier |-> "none"]

(***************************************************************************)
(* The fade envelope of drawStars, drawGalaxies, drawNebulas and           *)
(* drawStarClusters (the same statements in each).  depthPhase is in units *)
(* of 1 / PhaseSteps and depthAlpha in units of 1 / AlphaUnit:             *)
(*    depthPhase / 0.3 = 10 p / (3 PhaseSteps)                             *)
(*    (1 - depthPhase) / 0.05 = 60 (PhaseSteps - p) / (3 PhaseSteps)       *)
(***************************************************************************)
AlphaUnit == 3 * PhaseSteps

\* the envelope without the fade-out
DepthAlphaNoFadeOut(p) ==
    IF 10 * p < 3 * PhaseSteps THEN 10 * p ELSE AlphaUnit

\* let depthAlpha = 1;
\* if (depthPhase < 0.3) depthAlpha = depthPhase / 0.3;
\* else if (depthPhase > 0.95) depthAlpha = (1 - depthPhase) / 0.05;
DepthAlpha(p) ==
    IF 10 * p < 3 * PhaseSteps THEN 10 * p
    ELSE IF 20 * p > 19 * PhaseSteps THEN 60 * (PhaseSteps - p)
    ELSE AlphaUnit

NothingFaded == [kind |-> "none", depthPhase |-> 0, depthAlpha |-> 0]

(***************************************************************************)
(* star.life in double precision.  life starts at 1 and only ever has a    *)
(* decay of [2^-6, 2^-5) subtracted from it, so every value it takes is a  *)
(* whole multiple of 2^-58, the spacing of the doubles of that range.  A   *)
(* double x is kept as <<hi, lo>> with x = (hi * LimbBase + lo) * 2^-58    *)
(* and 0 <= lo < LimbBase.                                                 *)
(***************************************************************************)
LimbBase == 2^29

\* life: 1
OneDouble == <<LimbBase, 0>>

\* decay: 0.002 + Math.random() * 0.015 + (speed / 30) * 0.01 for the draws
\*   speed = 18 + 0.8933162959551542 * 12, Math.random() = 0.9828349526575733
\*     decay = 0.026315789473684216
\*   speed = 18 + 0.38980945183287163 * 12, Math.random() = 0.8778689946627494
\*     decay = 0.022727272727272728
\*   speed = 18 + 0.5 * 12, Math.random() = 0.5
\*     decay = 0.0175
\*   speed = 18 + 0.25 * 12, Math.random() = 0.75
\*     decay = 0.020249999999999997
DoubleDecays == {<<14128181, 480358186>>, <<12201611, 341645126>>,
                 <<9395240, 515396076>>, <<10871635, 519691042>>}

\* star.life > 0
IsPositive(x) == x[1] > 0 \/ (x[1] = 0 /\ x[2] > 0)

\* a < b
LessDouble(a, b) == a[1] < b[1] \/ (a[1] = b[1] /\ a[2] < b[2])

\* a - b before rounding
SubLimbs(a, b) ==
    IF a[2] < b[2] THEN <<a[1] - b[1] - 1, a[2] - b[2] + LimbBase>>
    ELSE <<a[1] - b[1], a[2] - b[2]>>

\* the spacing, in units of 2^-58, of the doubles of the binade of x: 53
\* significant bits, so 2^j for 2^(52+j) <= |x| < 2^(53+j)
DoubleSpacing(x) ==
    IF x[1] < 2^24 THEN 1
    ELSE IF x[1] < 2^25 THEN 2
    ELSE IF x[1] < 2^26 THEN 4
    ELSE IF x[1] < 2^27 THEN 8
    ELSE IF x[1] < 2^28 THEN 16
    ELSE IF x[1] < 2^29 THEN 32
    ELSE 64

\* the nearest double, ties to the even significand
RoundNearestEven(x) ==
    LET u == DoubleSpacing(x)
        r == x[2] % u
        down == <<x[1], x[2] - r>>
        up == IF down[2] + u = LimbBase THEN <<x[1] + 1, 0>>
              ELSE <<x[1], down[2] + u>>
    IN  IF 2 * r < u THEN down
        ELSE IF 2 * r > u THEN up
        ELSE IF (down[2] \div u) % 2 = 0 THEN down
        ELSE up

\* a subtraction that leaves life as it was
KeepLife(a, b) == a

\* star.life -= star.decay
SubDouble(a, b) == RoundNearestEven(SubLimbs(a, b))

\* createShootingStar: life 1 and the decay drawn
CreateDoubleStar(decay) == [life |-> OneDouble, decay |-> decay]

\* drawShootingStars on stars whose life is a double: filter first, then
\* life -= decay for every survivor; returns the survivors as updated
DrawDoubleStars(ss) ==
    LET activeStars == SelectSeq(ss, LAMBDA s : IsPositive(s.life))
    IN  [i \in 1..Len(activeStars) |->
            [activeStars[i] EXCEPT !.life = SubDouble(@, activeStars[i].decay)]]

\* no star followed yet
NoFlight == [pool |-> <<>>, decay |-> <<0, 0>>, calls |-> -1]

(***************************************************************************)
(* The state after the effect has run: resizeCanvas() once, listeners      *)
(* added, first frame requested.                                           *)
(***************************************************************************)
Init ==
    /\ variant \in {"cruise", "idle"}
    /\ maxShootingStars \in TierMaxShootingStars
    /\ \E win \in WindowSizes, ratio \in DevicePixelRatios :
          /\ canvas = CanvasSize(win, ratio)
          /\ galaxies = InitCollection(1, canvas)
          /\ nebulas = InitCollection(1, canvas)
          /\ stars = InitCollection(1, canvas)
    /\ shootingStars = <<>>
    /\ time = 0
    /\ lastTimestamp = 0
    /\ nextShootingStarTime \in DelayChoices
    /\ frameCount = 0
    /\ lastFpsCheck = 0
    /\ quality = Q10
    /\ mouseX = 0
    /\ mouseY = 0
    /\ targetMouseX = 0
    /\ targetMouseY = 0
    /\ lastMouseMoveTime = 0
    /\ driftAmount = IF variant = "cruise" THEN Den3 ELSE 0
    /\ driftProgress = 0
    /\ driftOffset = <<0, 0>>
    /\ isDrifting = FALSE
    /\ animationFrameId = 1
    /\ pending = {1}
    /\ listening = TRUE
    /\ lastSpawnTime = -1
    /\ flight = NoFlight
    /\ faded = NothingFaded
    /\ detected = NotDetected
    /\ generated = NothingGenerated
    /\ starColor = NoStarColor
    /\ drawn = NothingDrawn

(***************************************************************************)
(* handleMouseMove                                                         *)
(***************************************************************************)
HandleMouseMove(target) ==
    /\ targetMouseX' = target[1]
    /\ targetMouseY' = target[2]
    /\ lastMouseMoveTime' = IF variant = "idle" THEN time ELSE lastMouseMoveTime
    /\ UNCHANGED <<flight, faded, detected, generated, starColor, variant, maxShootingStars, canvas, stars, galaxies, nebulas,
                   shootingStars, time, lastTimestamp, nextShootingStarTime,
                   frameCount, lastFpsCheck, quality, mouseX,
                   mouseY, driftAmount, driftProgress, driftOffset,
                   isDrifting, animationFrameId, pending, listening,
                   lastSpawnTime, drawn>>

(***************************************************************************)
(* resizeCanvas                                                            *)
(***************************************************************************)
\* the resize that leaves the stars of the old canvas in place
ResizeCanvasKeepingStars(win, ratio) ==
    /\ canvas' = CanvasSize(win, ratio)
    /\ galaxies' = InitCollection(galaxies.gen + 1, canvas')
    /\ nebulas' = InitCollection(nebulas.gen + 1, canvas')
    /\ UNCHANGED <<flight, faded, detected, generated, starColor, variant, maxShootingStars, stars, shootingStars, time,
                   lastTimestamp, nextShootingStarTime, frameCount,
                   lastFpsCheck, quality, targetMouseX,
                   targetMouseY, mouseX, mouseY, lastMouseMoveTime,
                   driftAmount, driftProgress, driftOffset, isDrifting,
                   animationFrameId, pending, listening, lastSpawnTime, drawn>>

ResizeCanvas(win, ratio) ==
    /\ canvas' = CanvasSize(win, ratio)
    /\ galaxies' = InitCollection(galaxies.gen + 1, canvas')
    /\ nebulas' = InitCollection(nebulas.gen + 1, canvas')
    /\ stars' = InitCollection(stars.gen + 1, canvas')
    /\ UNCHANGED <<flight, faded, detected, generated, starColor, variant, maxShootingStars, shootingStars, time,
                   lastTimestamp, nextShootingStarTime, frameCount,
                   lastFpsCheck, quality, targetMouseX,
                   targetMouseY, mouseX, mouseY, lastMouseMoveTime,
                   driftAmount, driftProgress, driftOffset, isDrifting,
                   animationFrameId, pending, listening, lastSpawnTime, drawn>>

\* a frame that rebuilds the scene instead of drawing it
AnimateRegenerating(timestamp, delay, decay) ==
    /\ lastTimestamp' = timestamp
    /\ animationFrameId' = animationFrameId + 1
    /\ \E id \in pending : pending' = (pending \ {id}) \cup {animationFrameId + 1}
    /\ galaxies' = InitCollection(galaxies.gen + 1, canvas)
    /\ nebulas' = InitCollection(nebulas.gen + 1, canvas)
    /\ stars' = InitCollection(stars.gen + 1, canvas)
    /\ UNCHANGED <<flight, faded, detected, generated, starColor, variant, maxShootingStars, canvas, shootingStars, time,
                   nextShootingStarTime, frameCount, lastFpsCheck, quality,
                   targetMouseX, targetMouseY, mouseX, mouseY,
                   lastMouseMoveTime, driftAmount, driftProgress, driftOffset,
                   isDrifting, listening, lastSpawnTime, drawn>>

(***************************************************************************)
(* animate(timestamp).  `delay` and `decay` are the random draws of        *)
(* getNextShootingStarDelay and createShootingStar, used if it spawns.     *)
(* It runs when the browser delivers a frame request it still holds.       *)
(***************************************************************************)
Animate(timestamp, delay, decay) ==
    LET last == IF lastTimestamp = 0 THEN timestamp ELSE lastTimestamp
        deltaMs == timestamp - last
        now == time + deltaMs
        closes == ClosesWindow(timestamp)
        \* currentFps = frameCount, read only by the adjustment that follows
        currentFps == frameCount + 1
        q == IF closes THEN AdjustQuality(quality, currentFps) ELSE quality
        drift == UpdateDrift(deltaMs, now - lastMouseMoveTime)
        offset == WrapDrift(AddDrift(driftOffset, deltaMs, drift[2]))
        eligible == SpawnEligible(q, drift[2])
        survivors == IF eligible THEN DrawShootingStars(shootingStars)
                     ELSE FilterAlive(shootingStars)
        spawns == eligible /\ SpawnDue(now, survivors)
    IN  /\ lastTimestamp' = timestamp
        /\ time' = now
        /\ frameCount' = IF closes THEN 0 ELSE frameCount + 1
        /\ lastFpsCheck' = IF closes THEN timestamp ELSE lastFpsCheck
        /\ quality' = q
        /\ driftProgress' = drift[1]
        /\ driftAmount' = drift[2]
        /\ isDrifting' = drift[3]
        /\ driftOffset' = offset
        /\ mouseX' = Lerp(mouseX, targetMouseX)
        /\ mouseY' = Lerp(mouseY, targetMouseY)
        /\ drawn' = [nebulas |-> DrawnNebulas(q),
                     galaxies |-> DrawnGalaxies(q),
                     shooting |-> IF eligible
                                  THEN [i \in 1..Len(survivors) |-> survivors[i].life]
                                  ELSE <<>>,
                     stars |-> ActiveStars(q),
                     canvas |-> canvas,
                     driftOffset |-> offset]
        /\ shootingStars' = IF spawns
                            THEN Append(survivors, CreateShootingStar(decay))
                            ELSE survivors
        /\ nextShootingStarTime' = IF spawns THEN NextSpawnTime(now, delay)
                                   ELSE nextShootingStarTime
        /\ lastSpawnTime' = IF spawns THEN now ELSE lastSpawnTime
        \* the browser runs the callback of a request it holds, and the
        \* callback ends with animationFrameId = requestAnimationFrame(animate)
        /\ \E id \in pending : pending' = (pending \ {id}) \cup {animationFrameId + 1}
        /\ animationFrameId' = animationFrameId + 1
        /\ UNCHANGED <<flight, faded, detected, generated, starColor, variant, maxShootingStars, canvas, stars, galaxies,
                       nebulas, targetMouseX, targetMouseY, lastMouseMoveTime,
                       listening>>

(***************************************************************************)
(* The cleanup function the effect returns.                                *)
(***************************************************************************)
\* the cleanup that removes the listeners but cancels no frame request
CleanupWithoutCancel ==
    /\ listening
    /\ listening' = FALSE
    /\ UNCHANGED <<flight, faded, detected, generated, starColor, variant, maxShootingStars, canvas, stars, galaxies, nebulas,
                   shootingStars, time, lastTimestamp, nextShootingStarTime,
                   frameCount, lastFpsCheck, quality, targetMouseX,
                   targetMouseY, mouseX, mouseY, lastMouseMoveTime,
                   driftAmount, driftProgress, driftOffset, isDrifting,
                   animationFrameId, pending, lastSpawnTime, drawn>>

\* removeEventListener('resize'), removeEventListener('mousemove'),
\* cancelAnimationFrame(animationFrameId); React runs it once
Cleanup ==
    /\ listening
    /\ listening' = FALSE
    /\ pending' = pending \ {animationFrameId}
    /\ UNCHANGED <<flight, faded, detected, generated, starColor, variant, maxShootingStars, canvas, stars, galaxies, nebulas,
                   shootingStars, time, lastTimestamp, nextShootingStarTime,
                   frameCount, lastFpsCheck, quality, targetMouseX,
                   targetMouseY, mouseX, mouseY, lastMouseMoveTime,
                   driftAmount, driftProgress, driftOffset, isDrifting,
                   animationFrameId, lastSpawnTime, drawn>>

\* the timestamps the frame scheduler can deliver next
NextTimestamps(first, deltas) ==
    IF lastTimestamp = 0 THEN first
    ELSE {lastTimestamp + d : d \in deltas}

(***************************************************************************)
(* The engine: frames, resizes and pointer events in any order.            *)
(***************************************************************************)
Frame ==
    \E timestamp \in NextTimestamps(FirstTimestamps, FrameDeltas), delay \in DelayChoices,
       decay \in DecayChoices :
        /\ timestamp <= MaxTimestamp
        /\ Animate(timestamp, delay, decay)

Resize ==
    \E win \in WindowSizes, ratio \in DevicePixelRatios :
        /\ listening
        /\ stars.gen <= MaxResizes
        /\ ResizeCanvas(win, ratio)

MouseMove == \E target \in PointerTargets : listening /\ HandleMouseMove(target)

Next == Frame \/ Resize \/ MouseMove

Spec == Init /\ [][Next]_vars

(***************************************************************************)
(* The quality controller under fast, medium and slow frames.              *)
(***************************************************************************)
InitQuality ==
    /\ Init
    /\ variant = "cruise"
    /\ maxShootingStars = 2
    /\ nextShootingStarTime = 10000
    /\ canvas = <<800, 600>>

QualityFrame ==
    \E timestamp \in NextTimestamps({1200}, QualityDeltas) :
        /\ timestamp <= MaxQualityTimestamp
        /\ Animate(timestamp, 5000, 26)

SpecQuality == InitQuality /\ [][QualityFrame]_vars

(***************************************************************************)
(* Shooting stars from spawn to retirement: smooth frames and stalls.      *)
(***************************************************************************)
InitLife ==
    /\ Init
    /\ variant = "cruise"
    /\ nextShootingStarTime = 5000
    /\ maxShootingStars = 2
    /\ canvas = <<800, 600>>

LifeFrame ==
    \E timestamp \in NextTimestamps({8}, LifeDeltas), decay \in DecayChoices :
        /\ animationFrameId <= MaxLifeFrames
        /\ timestamp <= MaxLifeTimestamp
        /\ Animate(timestamp, 5000, decay)

SpecLife == InitLife /\ [][LifeFrame]_vars

(***************************************************************************)
(* A long run: the drift accumulator up to and across its wrap at 100.     *)
(***************************************************************************)
InitLong ==
    /\ Init
    /\ nextShootingStarTime = 5000
    /\ maxShootingStars = 2
    /\ canvas = <<800, 600>>

LongFrame ==
    \E timestamp \in NextTimestamps({8}, LongDeltas) :
        /\ animationFrameId <= MaxLongFrames
        /\ timestamp <= MaxLongTimestamp
        /\ Animate(timestamp, 5000, 26)

SpecLong == InitLong /\ [][LongFrame]_vars

(***************************************************************************)
(* The idle detector: frames and pointer moves in any order.               *)
(***************************************************************************)
InitDrift ==
    /\ Init
    /\ variant = "idle"
    /\ nextShootingStarTime = 10000
    /\ maxShootingStars = 2
    /\ canvas = <<800, 600>>

DriftFrame ==
    \E timestamp \in NextTimestamps({8}, DriftDeltas) :
        /\ animationFrameId <= MaxDriftFrames
        /\ timestamp <= MaxDriftTimestamp
        /\ Animate(timestamp, 5000, 26)

DriftMouseMove == \E target \in PointerTargets : listening /\ HandleMouseMove(target)

NextDrift == DriftFrame \/ DriftMouseMove

SpecDrift == InitDrift /\ [][NextDrift]_vars

(***************************************************************************)
(* The life of the effect: frames, resizes and pointer events until the    *)
(* component unmounts and React runs the cleanup.                          *)
(***************************************************************************)
InitStop ==
    /\ Init
    /\ nextShootingStarTime = 5000
    /\ maxShootingStars = 2

StopFrame ==
    \E timestamp \in NextTimestamps({8}, FrameDeltas) :
        /\ timestamp <= MaxStopTimestamp
        /\ Animate(timestamp, 5000, 26)

NextStop == StopFrame \/ Resize \/ MouseMove \/ Cleanup

SpecStop == InitStop /\ [][NextStop]_vars

(***************************************************************************)
(* The colour a generator gives to one star: getRandomStarColor(), called  *)
(* once for the star, with every value the four Math.random() calls can    *)
(* return.                                                                 *)
(***************************************************************************)
InitColor ==
    /\ Init
    /\ variant = "cruise"
    /\ nextShootingStarTime = 5000
    /\ maxShootingStars = 2
    /\ canvas = <<800, 600>>

PickStarColor ==
    /\ starColor = NoStarColor
    /\ \E n \in RandomValues, vr \in Variations, vg \in Variations, vb \in Variations :
        /\ starColor' = GetRandomStarColor(n, vr, vg, vb)
        /\ UNCHANGED <<flight, faded, detected, generated, variant, maxShootingStars, canvas, stars, galaxies,
                       nebulas, shootingStars, time, lastTimestamp,
                       nextShootingStarTime, frameCount, lastFpsCheck, quality,
                       targetMouseX, targetMouseY, mouseX, mouseY,
                       lastMouseMoveTime, driftAmount, driftProgress,
                       driftOffset, isDrifting, animationFrameId, pending,
                       listening, lastSpawnTime, drawn>>

SpecColor == InitColor /\ [][PickStarColor]_vars

(***************************************************************************)
(* One call of a generator, with the values Math.random() can return for   *)
(* the length of the array and for the sizes of two of its entries.        *)
(***************************************************************************)
InitGenerate ==
    /\ Init
    /\ variant = "cruise"
    /\ nextShootingStarTime = 5000
    /\ maxShootingStars = 2
    /\ canvas = <<800, 600>>

Generated(result) ==
    /\ generated' = result
    /\ UNCHANGED <<flight, faded, detected, variant, maxShootingStars, canvas, stars, galaxies,
                   nebulas, shootingStars, time, lastTimestamp,
                   nextShootingStarTime, frameCount, lastFpsCheck, quality,
                   targetMouseX, targetMouseY, mouseX, mouseY,
                   lastMouseMoveTime, driftAmount, driftProgress,
                   driftOffset, isDrifting, animationFrameId, pending,
                   listening, lastSpawnTime, starColor, drawn>>

GenerateStars ==
    /\ generated = NothingGenerated
    /\ \E rollA \in SizeRolls, nA \in SizeDraws, rollB \in SizeRolls, nB \in SizeDraws :
          Generated(InitStars(stars, rollA, nA, rollB, nB))

GenerateGalaxies ==
    /\ generated = NothingGenerated
    /\ \E n \in CountDraws, rollA \in SizeRolls, nA \in SizeDraws,
          rollB \in SizeRolls, nB \in SizeDraws :
          Generated(InitGalaxies(n, rollA, nA, rollB, nB))

GenerateNebulas ==
    /\ generated = NothingGenerated
    /\ \E n \in RandomValues : Generated(InitNebulas(n))

GenerateStarClusters ==
    /\ generated = NothingGenerated
    /\ \E n \in RandomValues : Generated(InitStarClusters(n))

NextGenerate ==
    GenerateStars \/ GenerateGalaxies \/ GenerateNebulas \/ GenerateStarClusters

SpecGenerate == InitGenerate /\ [][NextGenerate]_vars

(***************************************************************************)
(* One call of detectPerformanceTier() on every device of the input sets.  *)
(***************************************************************************)
InitDetect ==
    /\ Init
    /\ variant = "cruise"
    /\ nextShootingStarTime = 5000
    /\ maxShootingStars = 2
    /\ canvas = <<800, 600>>

Detect ==
    /\ detected = NotDetected
    /\ \E isMobile \in BOOLEAN, hardwareConcurrency \in HardwareConcurrencies,
          deviceMemory \in DeviceMemories, screen \in ScreenSizes, probe \in Probes :
          detected' = [isMobile |-> isMobile,
                       hardwareConcurrency |-> hardwareConcurrency,
                       deviceMemory |-> deviceMemory, screen |-> screen,
                       probe |-> probe,
                       tier |-> DetectPerformanceTier(isMobile, hardwareConcurrency,
                                                      deviceMemory, screen, probe)]
    /\ UNCHANGED <<flight, faded, variant, maxShootingStars, canvas, stars, galaxies,
                   nebulas, shootingStars, time, lastTimestamp,
                   nextShootingStarTime, frameCount, lastFpsCheck, quality,
                   targetMouseX, targetMouseY, mouseX, mouseY,
                   lastMouseMoveTime, driftAmount, driftProgress,
                   driftOffset, isDrifting, animationFrameId, pending,
                   listening, lastSpawnTime, starColor, generated, drawn>>

SpecDetect == InitDetect /\ [][Detect]_vars

(***************************************************************************)
(* Frames around suspensions of the page: the browser delivers no frame    *)
(* to a hidden tab, and the first frame after it carries the whole gap as  *)
(* its deltaTime.                                                          *)
(***************************************************************************)
InitSuspend ==
    /\ Init
    /\ nextShootingStarTime = 5000
    /\ maxShootingStars = 2
    /\ canvas = <<800, 600>>

SuspendFrame ==
    \E timestamp \in NextTimestamps({8}, SuspendDeltas) :
        /\ animationFrameId <= MaxSuspendFrames
        /\ timestamp <= MaxSuspendTimestamp
        /\ Animate(timestamp, 5000, 26)

SpecSuspend == InitSuspend /\ [][SuspendFrame]_vars

(***************************************************************************)
(* The scene left idle: the pointer moves for a while and then rests,      *)
(* while the browser keeps delivering frames (each frame requests the      *)
(* next one).                                                              *)
(***************************************************************************)
InitCruise == InitDrift

CruiseFrame ==
    \E timestamp \in NextTimestamps({8}, CruiseDeltas) :
        /\ timestamp <= MaxCruiseTimestamp
        /\ Animate(timestamp, 5000, 26)

CruiseMouseMove ==
    /\ listening
    /\ time <= MaxMoveTime
    /\ \E target \in PointerTargets : HandleMouseMove(target)

NextCruise == CruiseFrame \/ CruiseMouseMove

SpecCruise == InitCruise /\ [][NextCruise]_vars /\ WF_vars(CruiseFrame)

(***************************************************************************)
(* A draw function fading one entity, at every depthPhase of the grid.     *)
(***************************************************************************)
InitFade ==
    /\ Init
    /\ variant = "cruise"
    /\ nextShootingStarTime = 5000
    /\ maxShootingStars = 2
    /\ canvas = <<800, 600>>

Fade ==
    /\ faded = NothingFaded
    /\ \E kind \in Kinds, p \in 0 .. (PhaseSteps - 1) :
          faded' = [kind |-> kind, depthPhase |-> p, depthAlpha |-> DepthAlpha(p)]
    /\ UNCHANGED <<flight, variant, maxShootingStars, canvas, stars, galaxies,
                   nebulas, shootingStars, time, lastTimestamp,
                   nextShootingStarTime, frameCount, lastFpsCheck, quality,
                   targetMouseX, targetMouseY, mouseX, mouseY,
                   lastMouseMoveTime, driftAmount, driftProgress,
                   driftOffset, isDrifting, animationFrameId, pending,
                   listening, lastSpawnTime, starColor, generated, detected,
                   drawn>>

SpecFade == InitFade /\ [][Fade]_vars

(***************************************************************************)
(* One shooting star from its creation to its removal: every frame passes  *)
(* the pool to drawShootingStars and keeps what it returns.  `calls`       *)
(* counts the frames that processed the pool since the star was created.   *)
(***************************************************************************)
InitFlight ==
    /\ Init
    /\ variant = "cruise"
    /\ nextShootingStarTime = 5000
    /\ maxShootingStars = 2
    /\ canvas = <<800, 600>>

UnchangedByFlight ==
    UNCHANGED <<variant, maxShootingStars, canvas, stars, galaxies,
                nebulas, shootingStars, time, lastTimestamp,
                nextShootingStarTime, frameCount, lastFpsCheck, quality,
                targetMouseX, targetMouseY, mouseX, mouseY,
                lastMouseMoveTime, driftAmount, driftProgress,
                driftOffset, isDrifting, animationFrameId, pending,
                listening, lastSpawnTime, starColor, generated, detected,
                faded, drawn>>

FlightSpawn ==
    /\ flight = NoFlight
    /\ \E decay \in DoubleDecays :
          flight' = [pool |-> <<CreateDoubleStar(decay)>>, decay |-> decay,
                     calls |-> 0]
    /\ UnchangedByFlight

FlightFrame ==
    /\ flight.pool # <<>>
    /\ flight' = [flight EXCEPT !.pool = DrawDoubleStars(@), !.calls = @ + 1]
    /\ UnchangedByFlight

NextFlight == FlightSpawn \/ FlightFrame

SpecFlight == InitFlight /\ [][NextFlight]_vars

(***************************************************************************)
(* Properties.                                                             *)
(***************************************************************************)
\* a frame was animated in this step
FrameTaken == animationFrameId' # animationFrameId

\* a shooting star was spawned in this step
Spawned == lastSpawnTime' # lastSpawnTime

\* C1: the number of shooting stars in the active set never exceeds
\* performanceConfig.maxShootingStars, whatever frames, resizes and pointer
\* events occur.
C1_PoolBound == Len(shootingStars) <= maxShootingStars

\* the pool is full and the spawn time has passed
C1_Witness == Len(shootingStars) = maxShootingStars /\ time >= nextShootingStarTime

\* C2: quality stays within [0.1, 1.0] in every reachable state; in
\* particular an increase never takes it above 1.0.
C2_QualityInRange == ~FLt(quality, Q01) /\ ~FGt(quality, Q10)

\* C3: quality is at least 0.2 after every adjustment.
C3_QualityAtLeastPoint2 == ~FLt(quality, Q02)

\* C3 (amended): quality is at least 0.1 after every adjustment.
C3_QualityAtLeastPoint1 == ~FLt(quality, Q01)

\* a decrease has taken quality below 0.2
C3_Witness == FLt(quality, Q02) /\ frameCount = 0 /\ lastTimestamp > 0

\* C4: quality changes only in the frame that closes a measurement window,
\* and then by exactly one step: -0.1 when the window's fps (the frames
\* counted, this one included) is below 30, +0.05 when it is above 55.  With
\* an fps of 30..55, and in every frame that closes no window, quality is
\* unchanged.
C4_OneStepPerWindow ==
    [][quality' # quality =>
          /\ FrameTaken
          /\ lastTimestamp' - lastFpsCheck >= FpsWindow
          /\ \/ frameCount + 1 < LowFps /\ quality' = FSub(quality, Q01)
             \/ frameCount + 1 > HighFps /\ quality' = FAdd(quality, Q005)]_vars

\* a window has just closed with an increase that followed two decreases
C4_Witness ==
    /\ frameCount = 0
    /\ lastFpsCheck = lastTimestamp
    /\ quality = FAdd(FSub(FSub(Q10, Q01), Q01), Q005)

\* C5: in every frame nebulas are drawn iff quality is not below 0.5 and
\* galaxies are drawn iff quality is not below 0.8.
C5_GatesByThreshold ==
    lastTimestamp > 0 =>
        /\ drawn.nebulas = nebulas <=> ~FLt(quality, Q05)
        /\ drawn.galaxies = galaxies <=> ~FLt(quality, Q08)

\* C6: in a frame that suppresses spawning, every shooting star that is
\* alive still advances and loses life.
C6_SuppressedStarsKeepAging ==
    [][FrameTaken /\ ~SpawnEligible(quality', driftAmount') =>
          LET alive == FilterAlive(shootingStars)
          IN  /\ Len(shootingStars') >= Len(alive)
              /\ \A i \in 1..Len(alive) :
                    /\ shootingStars'[i].life < alive[i].life
                    /\ shootingStars'[i].steps > alive[i].steps]_vars

\* C7: at the end of every frame the active set holds no shooting star with
\* life <= 0.
C7_NoDeadStarAtFrameEnd ==
    \A i \in 1..Len(shootingStars) : shootingStars[i].life > 0

\* C8: the life of every shooting star in the active set, and every life
\* value a frame draws with, lies in [0, 1].
C8_LifeInUnitRange ==
    /\ \A i \in 1..Len(shootingStars) :
          shootingStars[i].life >= 0 /\ shootingStars[i].life <= LifeScale
    /\ \A i \in 1..Len(drawn.shooting) :
          drawn.shooting[i] >= 0 /\ drawn.shooting[i] <= LifeScale

\* C9: every spawn re-arms the timer to the current time plus a delay in
\* [5, 15) s; no spawn happens before engine time 5 s, and two consecutive
\* spawns are at least 5 s of engine time apart.
C9_SpawnsFiveSecondsApart ==
    [][Spawned =>
          /\ time' >= 5000
          /\ lastSpawnTime # -1 => time' - lastSpawnTime >= 5000
          /\ nextShootingStarTime' - time' >= 5000
          /\ nextShootingStarTime' - time' < 15000]_vars

\* a second spawn has happened
C9_Witness ==
    /\ lastSpawnTime >= 10000
    /\ Len(shootingStars) >= 2
    /\ nextShootingStarTime >= lastSpawnTime + 5000

\* C10: a spawn time that passed while the pool was full is skipped: the
\* frame after a state in which the pool is full and the spawn time has
\* passed does not spawn.
C10_NoMakeUpSpawn ==
    [][(time >= nextShootingStarTime /\ Len(shootingStars) = maxShootingStars)
          => ~Spawned]_vars

\* the frame's deltaTime, ms
FrameDelta == lastTimestamp' - (IF lastTimestamp = 0 THEN lastTimestamp' ELSE lastTimestamp)

\* driftOffset' is driftOffset plus DRIFT_SPEED x deltaTime x driftAmount,
\* less `wrap`: the whole deltaTime at driftAmount 1, nothing at
\* driftAmount 0, and strictly in between for a driftAmount in between
AdvancedBy(wrap) ==
    LET from == <<driftOffset[1] - wrap, driftOffset[2]>>
        full == <<from[1] + FrameDelta, from[2]>>
    IN  IF driftAmount' = Den3 THEN driftOffset' = full
        ELSE IF driftAmount' = 0 \/ FrameDelta = 0 THEN driftOffset' = from
        ELSE OffsetLt(from, driftOffset') /\ OffsetLt(driftOffset', full)

C12_ZeroDriftIdentity ==
    [][(FrameTaken /\ driftOffset' = <<0, 0>> /\ driftAmount' = 0) =>
          \A e \in DOMAIN PositionsDrawn(drawn') :
              PositionsDrawn(drawn')[e] = StaticPosition(e, canvas')]_vars

\* the entities of every kind generated for the current canvas
AllEntities ==
    UNION {Entities(kind, [w |-> canvas[1], h |-> canvas[2]]) : kind \in Kinds}

\* C13: for every entity, the depthPhase computed at the current driftOffset
\* equals the depthPhase computed at that driftOffset plus 1 / speed, speed
\* being the entity's phase speed.
C13_PhaseWraparound ==
    \A e \in AllEntities :
        DepthPhase(e, canvas, driftOffset)
            = DepthPhase(e, canvas, OffsetAdd(driftOffset, PhasePeriod(e.kind)))

\* a frame has drawn after a drift of several periods of every kind, with a
\* driftOffset that is no whole number of units, and a star's phase wrapped
C13_Witness ==
    /\ driftOffset[1] > 2 * PhasePeriod("nebula")[1]
    /\ driftOffset[2] > 0
    /\ drawn.driftOffset = driftOffset
    /\ \E e \in DOMAIN PositionsDrawn(drawn) :
          /\ e.kind = "star"
          /\ PositionsDrawn(drawn)[e].phase
                # OffsetAdd(InitialPhase(e, canvas), driftOffset)

\* C14: driftAmount stays within [0, 1] in every reachable state of the idle
\* detector, for every interleaving of pointer moves and frames.
C14_DriftAmountInUnitRange == driftAmount >= 0 /\ driftAmount <= Den3

\* a fade-in was interrupted by a pointer move and is fading out
C14_Witness ==
    /\ isDrifting
    /\ time - lastMouseMoveTime <= IDLE_THRESHOLD
    /\ driftProgress > 0 /\ driftProgress < Den
    /\ driftAmount > 0 /\ driftAmount < Den3

\* C15: in a frame whose idle time is at or below IDLE_THRESHOLD driftAmount
\* does not increase, and in a frame whose idle time is beyond it
\* driftAmount does not decrease.
C15_DriftNeverPops ==
    [][FrameTaken =>
          IF time' - lastMouseMoveTime > IDLE_THRESHOLD
          THEN driftAmount' >= driftAmount
          ELSE driftAmount' <= driftAmount]_vars

\* C16: no frame replaces or changes the stars, galaxies or nebulas
\* collections (or the entities generated in them); they change only in a
\* resize, which rebuilds all three for the new canvas.
C16_GeometryStableBetweenResizes ==
    [][(stars' # stars \/ galaxies' # galaxies \/ nebulas' # nebulas
          \/ \E kind \in Kinds : Entities(kind, stars') # Entities(kind, stars)) =>
          /\ ~FrameTaken
          /\ stars' = InitCollection(stars.gen + 1, canvas')
          /\ galaxies' = InitCollection(galaxies.gen + 1, canvas')
          /\ nebulas' = InitCollection(nebulas.gen + 1, canvas')]_vars

\* frames have drawn the collections of the second generation, at a lowered
\* quality and after some drift
C16_Witness ==
    /\ stars.gen = 2
    /\ drawn.nebulas = nebulas
    /\ FLt(quality, Q10)
    /\ OffsetLt(<<0, 0>>, driftOffset)
    /\ time > 0

\* C17: every frame draws with the canvas size of the moment, and with
\* stars, galaxies and nebulas that one and the same resize generated for
\* that size.
C17_ResizeNeverHalfApplied ==
    [][FrameTaken =>
          /\ drawn'.canvas = canvas'
          /\ \A coll \in {stars', galaxies', nebulas'} :
                /\ <<coll.w, coll.h>> = canvas'
                /\ coll.gen = stars'.gen
          /\ drawn'.stars.coll = stars'
          /\ drawn'.galaxies \in {galaxies', Nothing}
          /\ drawn'.nebulas \in {nebulas', Nothing}]_vars

\* a frame has drawn the regenerated scene on the canvas of a window on a
\* high-density display
C17_Witness ==
    /\ stars.gen = 2
    /\ canvas = <<1600, 1200>>
    /\ drawn.canvas = canvas
    /\ drawn.stars.coll = stars
    /\ drawn.nebulas = nebulas
    /\ drawn.galaxies = galaxies

\* C18: at most one frame request is pending and animationFrameId is its
\* id; once the cleanup has run nothing changes any more: no frame runs and
\* no resize or pointer event reaches the engine.
C18_StopCeasesScheduling ==
    [][/\ listening
       /\ pending = {animationFrameId}
       /\ pending' \subseteq {animationFrameId'}
       /\ Cardinality(pending') <= 1]_vars

\* the cleanup has run after some frames
C18_Witness ==
    /\ ~listening
    /\ pending = {}
    /\ animationFrameId > 3

\* C19: every frame draws the first floor(stars.length x quality) stars of
\* the generated array: never more than stars.length, all of them at
\* quality 1, and no fewer than the frame before when the quality has not
\* dropped (and the array is the same).
C19_StarPrefixByQuality ==
    [][FrameTaken =>
          LET len == StarCount(stars')
          IN  /\ drawn'.stars.coll = stars'
              /\ drawn'.stars.count = Min(len, FloorTimes(len, quality'))
              /\ drawn'.stars.count <= len
              /\ 20 * drawn'.stars.count <= len * quality'[1]
              /\ 20 * drawn'.stars.count >= len * quality'[1] - 20
              /\ quality' = Q10 => drawn'.stars.count = len
              /\ (drawn.stars.coll = stars' /\ ~FLt(quality', quality)) =>
                    drawn'.stars.count >= drawn.stars.count]_vars

\* a frame has drawn a proper prefix of the stars: 720 of 800 at quality 0.9
C19_Witness ==
    /\ quality = FSub(Q10, Q01)
    /\ drawn.stars.coll = stars
    /\ StarCount(stars) = 800
    /\ drawn.stars.count = 720

\* C20: the colour table is sampled with cumulative weights that sum to 1:
\* there is one weight per colour, the weights total exactly 1, the value
\* drawn lies in the interval of the entry picked, that interval (of the
\* width of the entry's weight) lies within the range [0, 1) of the values
\* that can be drawn, and every entry is picked for some value.
C20_WeightsPartitionUnitInterval ==
    starColor # NoStarColor =>
        LET i == starColor.base
        IN  /\ Len(STAR_COLOR_WEIGHTS) = Len(STAR_COLORS)
            /\ Cumulative(Len(STAR_COLOR_WEIGHTS)) = WeightUnit
            /\ ~RandomLt(starColor.random, Cumulative(i - 1))
            /\ RandomLt(starColor.random, Cumulative(i))
            /\ Cumulative(i) <= WeightUnit
            /\ \A j \in 1 .. Len(STAR_COLORS) :
                  \E n \in RandomValues : BaseColor(n) = j

\* C21: parallaxFactor is monotone in apparent nearness: of two stars, and
\* of two galaxies, the one generated with the larger size never has the
\* smaller parallaxFactor.
C21_ParallaxMonotoneInSize ==
    generated.kind \in {"stars", "galaxies"} =>
        \A a \in 1 .. 2, b \in 1 .. 2 :
            generated.sample[a].size > generated.sample[b].size =>
                generated.sample[a].parallaxFactor >=
                    generated.sample[b].parallaxFactor

\* C23: a generator returns a count within its stated bounds, whatever is
\* drawn: 100 to 200 galaxies, 6 to 12 nebulas, 5 to 15 star clusters,
\* and each end of each range is the count of some draw.
C23_CountsCoverStatedRanges ==
    /\ generated.kind = "galaxies" =>
          /\ generated.count \in MIN_GALAXIES .. MAX_GALAXIES
          /\ \A c \in {MIN_GALAXIES, MAX_GALAXIES} :
                \E n \in RandomValues : NumGalaxies(n) = c
    /\ generated.kind = "nebulas" =>
          /\ generated.count \in MIN_NEBULAS .. MAX_NEBULAS
          /\ \A c \in {MIN_NEBULAS, MAX_NEBULAS} :
                \E n \in RandomValues : NumNebulas(n) = c
    /\ generated.kind = "clusters" =>
          /\ generated.count \in 5 .. 15
          /\ \A c \in {5, 15} :
                \E n \in RandomValues : NumClusters(n) = c

\* the WebGL probe threw or gave no information
ProbeFailed == detected.probe.outcome \in {"throws", "no context", "no extension"}

\* C22 as stated: whenever the GPU probe throws or yields no information,
\* a non-mobile device is given the medium tier, whatever its core count,
\* memory hint and screen area are.
C22_ProbeFailureGivesMedium ==
    (ProbeFailed /\ ~detected.isMobile) => detected.tier = "medium"

\* C22, amended: whenever the GPU probe throws or yields no information, the
\* GPU counts as a medium one (2 points of the score): a non-mobile device
\* is given the tier its cores, memory and screen earn with those 2 points,
\* which is medium when the core count and the memory hint are unavailable
\* too, and never low on a device with 4 cores, 4 GB and a full-HD screen.
C22_ProbeFailureCountsAsMediumGpu ==
    (ProbeFailed /\ ~detected.isMobile) =>
        LET cores == IF detected.hardwareConcurrency = 0 THEN 2
                     ELSE detected.hardwareConcurrency
            memory == IF detected.deviceMemory = 0 THEN 16 ELSE detected.deviceMemory
            small == detected.screen[1] * detected.screen[2] < 1920 * 1080
        IN  /\ detected.tier =
                  TierOfScore(Points(cores, 1) + Points(memory, 4) + 2
                              - (IF small THEN 1 ELSE 0))
            /\ (detected.hardwareConcurrency = 0 /\ detected.deviceMemory = 0) =>
                  detected.tier = "medium"
            /\ (cores >= 4 /\ memory >= 16 /\ ~small) => detected.tier # "low"

\* the probe threw on a device that reports neither cores nor memory, and
\* the device was given the medium tier
C22_Witness ==
    /\ detected.probe.outcome = "throws"
    /\ ~detected.isMobile
    /\ detected.hardwareConcurrency = 0
    /\ detected.deviceMemory = 0
    /\ detected.screen = <<1366, 768>>
    /\ detected.tier = "medium"

\* driftOffset after the frame's addition and before its wrap
Unwrapped == AddDrift(driftOffset, FrameDelta, driftAmount')

\* C24: the wrap of driftOffset is seamless: in a frame that takes
\* driftOffset above 100 and subtracts 100, every star, galaxy, nebula and
\* cluster has the depthPhase it would have had without the subtraction.
C24_SeamlessWrap ==
    [][(FrameTaken /\ driftOffset' # Unwrapped) =>
          /\ Unwrapped = OffsetAdd(driftOffset', <<DriftWrap, 0>>)
          /\ \A e \in AllEntities :
                DepthPhase(e, canvas, driftOffset') = DepthPhase(e, canvas, Unwrapped)]_vars

\* the latest frame took driftOffset above 100 and wrapped it
C24_Witness ==
    /\ drawn.driftOffset = driftOffset
    /\ variant = "cruise"
    /\ time > DriftWrap
    /\ driftOffset = <<time - DriftWrap, 0>>
    /\ driftOffset[1] < 1000

\* C25: driftOffset is a wrapping accumulator that stays in range: after
\* every frame 0 <= driftOffset <= 100, whatever driftAmount and the
\* frame's deltaTime are (one very long deltaTime after a suspension
\* included), and in a frame that does not wrap it does not decrease.
C25_DriftOffsetInRange ==
    [][FrameTaken =>
          /\ ~OffsetLt(driftOffset', <<0, 0>>)
          /\ ~OffsetLt(<<DriftWrap, 0>>, driftOffset')
          /\ driftOffset' = Unwrapped => ~OffsetLt(driftOffset', driftOffset)]_vars

\* C26: cruise engages after idling: once the pointer rests while frames
\* keep arriving, driftAmount eventually reaches 1 and stays 1; and
\* driftAmount does not begin to rise from 0 in a frame whose idle time
\* does not exceed IDLE_THRESHOLD.
C26_CruiseEngagesAfterIdling ==
    /\ <>[](driftAmount = Den3)
    /\ [][(driftAmount = 0 /\ driftAmount' > 0) =>
             time' - lastMouseMoveTime' > IDLE_THRESHOLD]_vars

\* the pointer moved after the start, then rested, and the scene cruises
C26_Witness ==
    /\ lastMouseMoveTime > 0
    /\ time - lastMouseMoveTime > IDLE_THRESHOLD + DRIFT_FADE_IN_DURATION
    /\ isDrifting
    /\ driftProgress = Den
    /\ driftAmount = Den3

\* C27: the fade envelope prevents popping at the phase wrap: the alpha
\* multiplier lies in [0, 1], is 0 at phase 0, rises linearly to 1 at phase
\* 0.3, is 1 on [0.3, 0.95] and falls linearly toward 0 as the phase
\* approaches 1, so it is (near) 0 just after and just before a wrap.
C27_FadeEnvelope ==
    faded # NothingFaded =>
        LET p == faded.depthPhase
            a == faded.depthAlpha
        IN  /\ a >= 0 /\ a <= AlphaUnit
            /\ p = 0 => a = 0
            /\ 10 * p <= 3 * PhaseSteps => a = 10 * p
            /\ (10 * p >= 3 * PhaseSteps /\ 20 * p <= 19 * PhaseSteps) => a = AlphaUnit
            /\ 20 * p >= 19 * PhaseSteps => a = 60 * (PhaseSteps - p)
            /\ (p = 1 \/ p = PhaseSteps - 1) => 50 * a <= AlphaUnit

\* a star is faded one step before its phase wraps, at an alpha of 0.01
C27_Witness ==
    /\ faded.kind = "star"
    /\ faded.depthPhase = PhaseSteps - 1
    /\ faded.depthAlpha > 0
    /\ 50 * faded.depthAlpha <= AlphaUnit

\* C28: for every generated entity, one on a corner or on the centre of
\* the canvas included, and every reachable driftOffset, the depthPhase the
\* motion model computes lies in [0, 1): it is never negative and never 1.
C28_DepthPhaseInUnitInterval ==
    \A kind \in Kinds :
        \A e \in Entities(kind, [w |-> canvas[1], h |-> canvas[2]])
                    \cup EdgeEntities(kind, canvas) :
            /\ ~OffsetLt(DepthPhase(e, canvas, driftOffset), <<0, 0>>)
            /\ OffsetLt(DepthPhase(e, canvas, driftOffset), PhasePeriod(kind))

\* a frame has drawn with a nebula on the corner of the canvas, whose sum
\* of initial phase and travelled cycles is a whole number of cycles, and
\* with a star whose sum is no whole number but beyond one cycle
C28_Witness ==
    /\ drawn.driftOffset = driftOffset
    /\ driftOffset[1] >= PhasePeriod("nebula")[1]
    /\ \E e \in EdgeEntities("nebula", canvas) :
          /\ InitialPhase(e, canvas) = PhasePeriod("nebula")
          /\ DepthPhase(e, canvas, driftOffset) = <<0, 0>>
    /\ \E e \in EdgeEntities("star", canvas) :
          /\ DepthPhase(e, canvas, driftOffset) # <<0, 0>>
          /\ DepthPhase(e, canvas, driftOffset)
                # OffsetAdd(InitialPhase(e, canvas), driftOffset)

\* C29: the fps value of a quality adjustment counts the frames of at least
\* one full second of animation: quality is not decreased in a frame
\* reached less than 1000 ms after the first animated frame (`time` is the
\* time since that frame), whatever the timestamp of the first frame is.
C29_NoDecreaseInFirstSecond ==
    [][(FrameTaken /\ time' < FpsWindow) => ~FLt(quality', quality)]_vars

\* ceil(1 / decay): the number of times decay is taken from 1, without
\* rounding, until nothing positive is left
RECURSIVE ExactSteps(_, _)
ExactSteps(x, decay) ==
    IF IsPositive(x) THEN 1 + ExactSteps(SubLimbs(x, decay), decay) ELSE 0

CeilInverse(decay) == ExactSteps(OneDouble, decay)

\* a frame processed the pool in this step
FlightProcessed == flight.pool # <<>> /\ flight'.calls = flight.calls + 1

\* the frame either took the star out of the pool or lowered its life
RemovedOrLowered ==
    \/ flight'.pool = <<>>
    \/ LessDouble(flight'.pool[1].life, flight.pool[1].life)

\* C30 as stated: every frame that processes a shooting star lowers its
\* life, and the star, created with life 1, is out of the active set after
\* at most ceil(1/decay) + 1 processed frames.
C30_RemovedWithinCeilPlusOne ==
    [][FlightProcessed =>
          /\ RemovedOrLowered
          /\ flight'.pool # <<>> =>
                flight'.calls < CeilInverse(flight.decay) + 1]_vars

\* C30: every frame that processes a shooting star lowers its life, and the
\* star, created with life 1, is out of the active set after at most
\* ceil(1/decay) + 2 processed frames: the rounding of life -= decay can
\* leave a positive life after ceil(1/decay) subtractions, and one more
\* frame then processes the star.
C30_RemovedWithinCeilPlusTwo ==
    [][FlightProcessed =>
          /\ RemovedOrLowered
          /\ flight'.pool # <<>> =>
                flight'.calls < CeilInverse(flight.decay) + 2]_vars

\* a star is out of the pool after exactly ceil(1/decay) + 2 processed frames
C30_Witness ==
    /\ flight # NoFlight
    /\ flight.pool = <<>>
    /\ flight.calls = CeilInverse(flight.decay) + 2

====
